---------------------------- MODULE Spec2Model ----------------------------
(***************************************************************************)
(* estafette-gke-preemptible-killer: the whitelist/blacklist window        *)
(* policy (whitelist.go), the expiry computation (main.go,                 *)
(* getDesiredNodeState), the node lifecycle (main.go, processNode and the  *)
(* poll loop) and the bounded-wait drain (kubernetes_client.go).           *)
(*                                                                         *)
(* Instants are whole seconds counted from Go's zero time.Time, which is a *)
(* UTC midnight; a Duration is a number of seconds.                        *)
(***************************************************************************)
EXTENDS Integers, Sequences, FiniteSets, TLC

(***************************************************************************)
(* Time                                                                    *)
(***************************************************************************)
Hour == 3600

twelveHours == 12 * Hour

twentyFourHours == 24 * Hour

\* The zero value of time.Time (the value of an unassigned time.Time).
ZeroTime == 0

\* "2000-01-01T00:00:00Z": a midnight after the zero time.
whitelistStart == 1 * twentyFourHours

\* "2000-01-02T00:00:00Z": whitelistStart plus one day.
whitelistEnd == whitelistStart + twentyFourHours

Max(a, b) == IF a >= b THEN a ELSE b

Min(a, b) == IF a <= b THEN a ELSE b

\* time.Time.Truncate(d): round down to a multiple of d since the zero time.
Truncate(t, d) == t - (t % d)

\* The UTC time of day of an instant, in seconds since midnight.
TimeOfDay(t) == t % twentyFourHours

(***************************************************************************)
(* timespanset: a set of time spans is a sequence of spans [start, end),   *)
(* ascending, pairwise disjoint and not adjoining.                         *)
(***************************************************************************)
Span(s, e) == [start |-> s, end |-> e]

\* &timespan{}: both ends the zero time.
ZeroSpan == Span(ZeroTime, ZeroTime)

IsZero(ts) == ts.start = ZeroTime /\ ts.end = ZeroTime

Empty == << >>

\* timespan.adjoin: the span covering both when they touch, else the zero span.
adjoin(ts, b) ==
    IF ts.end = b.start THEN Span(ts.start, b.end)
    ELSE IF b.end = ts.start THEN Span(b.start, ts.end)
    ELSE ZeroSpan

\* intervalset.Set.Add of one span: the span is merged with every span it
\* overlaps or adjoins; a zero-length span adds nothing.
isetAdd(set, x) ==
    IF x.start >= x.end THEN set
    ELSE LET before(y) == y.end < x.start
             after(y)  == y.start > x.end
             touch(y)  == ~before(y) /\ ~after(y)
             touching  == SelectSeq(set, touch)
             lo == IF touching = << >> THEN x.start
                   ELSE Min(x.start, touching[1].start)
             hi == IF touching = << >> THEN x.end
                   ELSE Max(x.end, touching[Len(touching)].end)
         IN SelectSeq(set, before) \o << Span(lo, hi) >> \o SelectSeq(set, after)

\* What is left of span y after removing span x.
RemoveFrom(y, x) ==
    (IF y.start < Min(y.end, x.start)
        THEN << Span(y.start, Min(y.end, x.start)) >> ELSE << >>)
    \o
    (IF Max(y.start, x.end) < y.end
        THEN << Span(Max(y.start, x.end), y.end) >> ELSE << >>)

RECURSIVE isetSubSpan(_, _)
\* intervalset.Set.Sub of one span: every span of the set is shrunk, split or
\* removed; a zero-length span removes nothing.
isetSubSpan(set, x) ==
    IF x.start >= x.end \/ set = << >> THEN set
    ELSE RemoveFrom(Head(set), x) \o isetSubSpan(Tail(set), x)

RECURSIVE isetSub(_, _)
isetSub(set, b) ==
    IF b = << >> THEN set ELSE isetSub(isetSubSpan(set, Head(b)), Tail(b))

\* intervalset.Set.IntervalsBetween: the stored spans that meet the extents,
\* each clipped to the extents, ascending.
RECURSIVE isetIntervalsBetween(_, _, _)
isetIntervalsBetween(set, start, end) ==
    IF set = << >> THEN << >>
    ELSE LET y == Head(set)
             s == Max(y.start, start)
             e == Min(y.end, end)
         IN (IF s < e THEN << Span(s, e) >> ELSE << >>)
            \o isetIntervalsBetween(Tail(set), start, end)

\* timespanset.Set.Insert: false is the panic on a reversed span.
InsertOk(start, end) == ~(end < start)

Insert(set, start, end) == isetAdd(set, Span(start, end))

\* A Sub that leaves the set as it is.
SubNothing(set, b) == set

\* timespanset.Set.Sub: in-place subtraction of set b.
Sub(set, b) == isetSub(set, b)

\* ensureNonAdjoining whose doneFn is never called: the span held back last
\* is not handed on.
ensureNonAdjoiningWithoutDone(raw) ==
    LET RECURSIVE walk(_, _, _)
        walk(i, last, out) ==
            IF i > Len(raw)
            THEN out
            ELSE LET current  == raw[i]
                     adjoined == adjoin(last, current)
                 IN IF ~IsZero(adjoined) THEN walk(i + 1, adjoined, out)
                    ELSE IF ~IsZero(last)
                         THEN walk(i + 1, current, Append(out, last))
                         ELSE walk(i + 1, current, out)
    IN walk(1, ZeroSpan, << >>)

\* ensureNonAdjoining: the spans its receiveInterval/doneFn pair hands on for
\* the stored spans raw, while the receiver keeps returning true.  A span is
\* handed on only once the next one is known not to adjoin it, the last one
\* by doneFn.
ensureNonAdjoining(raw) ==
    LET RECURSIVE walk(_, _, _)
        walk(i, last, out) ==
            IF i > Len(raw)
            THEN IF ~IsZero(last) THEN Append(out, last) ELSE out
            ELSE LET current  == raw[i]
                     adjoined == adjoin(last, current)
                 IN IF ~IsZero(adjoined) THEN walk(i + 1, adjoined, out)
                    ELSE IF ~IsZero(last)
                         THEN walk(i + 1, current, Append(out, last))
                         ELSE walk(i + 1, current, out)
    IN walk(1, ZeroSpan, << >>)

\* timespanset.Set.IntervalsBetween: the spans delivered to the receiver f,
\* in order; a caller's receiver that returns false ends the delivery (isDone).
IntervalsBetween(set, start, end) ==
    ensureNonAdjoining(isetIntervalsBetween(set, start, end))

(***************************************************************************)
(* whitelist.go.  A whitelist or blacklist text is modelled after          *)
(* strings.Replace(" ", "") and strings.Split: a sequence of entries (the  *)
(* parts between commas), each the sequence of its fields (the parts       *)
(* between dashes); a field is <<hh, mm>> for the text "hh:mm" of two      *)
(* two-digit numbers and a tuple of another length for any other text (it  *)
(* holds no colon, or more than one).  << >> is the empty text.            *)
(***************************************************************************)
\* time.Parse(time.RFC3339, prefix + field + ":00Z") succeeds.
ParsesAsTime(field) ==
    /\ Len(field) = 2
    /\ field[1] \in 0..23
    /\ field[2] \in 0..59

\* The parsed instant on the day of whitelistStartPrefix.
ParsedTime(field) == whitelistStart + field[1] * Hour + field[2] * 60

WhitelistInstance(wl, bl, hours, count) ==
    [whitelist |-> wl, blacklist |-> bl,
     whitelistHours |-> hours, whitelistSecondCount |-> count]

\* An initialize that leaves the set and the count as they are.
initializeKeeping(w) == w

initialize(w) ==
    [w EXCEPT !.whitelistHours = Empty, !.whitelistSecondCount = 0]

\* mergeTimespans taking the end instant as part of the span.
mergeTimespansClosed(hours, start, end, direction) ==
    IF direction = "+"
    THEN [ok |-> InsertOk(start, end), hours |-> Insert(hours, start, end + 1)]
    ELSE IF direction = "-"
    THEN [ok |-> InsertOk(start, end),
          hours |-> Sub(hours, Insert(Empty, start, end + 1))]
    ELSE [ok |-> FALSE, hours |-> hours]

\* mergeTimespans: [ok, hours]; ok is false when it panics.
mergeTimespans(hours, start, end, direction) ==
    IF direction = "+"
    THEN [ok |-> InsertOk(start, end), hours |-> Insert(hours, start, end)]
    ELSE IF direction = "-"
    THEN [ok |-> InsertOk(start, end),
          hours |-> Sub(hours, Insert(Empty, start, end))]
    ELSE [ok |-> FALSE, hours |-> hours]

\* One entry of processHours' loop without the merge of the span from
\* midnight to the end time.
processIntervalUnsplit(hours, times, direction) ==
    IF Len(times) # 2 THEN [ok |-> FALSE, hours |-> hours]
    ELSE IF ~ParsesAsTime(times[1]) \/ ~ParsesAsTime(times[2])
    THEN [ok |-> FALSE, hours |-> hours]
    ELSE LET start == ParsedTime(times[1])
             end   == ParsedTime(times[2])
         IN IF end < start
            THEN mergeTimespans(hours, start, whitelistEnd, direction)
            ELSE mergeTimespans(hours, start, end, direction)

\* One entry of processHours' loop.
processInterval(hours, times, direction) ==
    IF Len(times) # 2 THEN [ok |-> FALSE, hours |-> hours]
    ELSE IF ~ParsesAsTime(times[1]) \/ ~ParsesAsTime(times[2])
    THEN [ok |-> FALSE, hours |-> hours]
    ELSE LET start == ParsedTime(times[1])
             end   == ParsedTime(times[2])
         IN IF end < start
            THEN LET m1 == mergeTimespans(hours, whitelistStart, end, direction)
                     m2 == mergeTimespans(m1.hours, start, whitelistEnd, direction)
                 IN [ok |-> m1.ok /\ m2.ok, hours |-> m2.hours]
            ELSE mergeTimespans(hours, start, end, direction)

RECURSIVE processHours(_, _, _)
\* processHours: [ok, hours]; ok is false when an entry makes it panic.
processHours(hours, input, direction) ==
    IF input = << >> THEN [ok |-> TRUE, hours |-> hours]
    ELSE LET r == processInterval(hours, Head(input), direction)
         IN IF ~r.ok THEN r ELSE processHours(r.hours, Tail(input), direction)

\* updateWhitelistSecondCount with = for +=: the count is that of the last span.
updateWhitelistSecondCountAssigning(count, start, end) ==
    [acc |-> end - start, cont |-> TRUE]

\* updateWhitelistSecondCount as a receiver over the accumulated count.
updateWhitelistSecondCount(count, start, end) ==
    [acc |-> count + (end - start), cont |-> TRUE]

\* IntervalsBetween(whitelistStart, whitelistEnd, w.updateWhitelistSecondCount):
\* the count after the delivery of spans, from the i-th on.
RECURSIVE countWhitelistSeconds(_, _, _)
countWhitelistSeconds(spans, i, count) ==
    IF i > Len(spans) THEN count
    ELSE LET r == updateWhitelistSecondCount(count, spans[i].start, spans[i].end)
         IN IF ~r.cont THEN r.acc ELSE countWhitelistSeconds(spans, i + 1, r.acc)

\* "00:00 - 12:00, 12:00 - 00:00"
WholeDayText == << << <<0, 0>>, <<12, 0>> >>, << <<12, 0>>, <<0, 0>> >> >>

\* parseArguments: [ok, w]; ok is false when configuration panics.
parseArguments(w0) ==
    LET w  == initialize(w0)
        p1 == IF w.whitelist = << >>
              THEN processHours(w.whitelistHours, WholeDayText, "+")
              ELSE processHours(w.whitelistHours, w.whitelist, "+")
        p2 == processHours(p1.hours, w.blacklist, "-")
        n  == countWhitelistSeconds(
                  IntervalsBetween(p2.hours, whitelistStart, whitelistEnd),
                  1, w.whitelistSecondCount)
    IN IF ~p1.ok THEN [ok |-> FALSE, w |-> w]
       ELSE IF ~p2.ok THEN [ok |-> FALSE, w |-> [w EXCEPT !.whitelistHours = p1.hours]]
       ELSE [ok |-> TRUE,
             w |-> [w EXCEPT !.whitelistHours = p2.hours,
                             !.whitelistSecondCount = n]]

\* The receiver closure of getExpiryDate.  acc holds what the closure writes:
\* timeToBeAdded, expiryDatetime, and two counters kept for the analysis
\* (assigned: assignments to expiryDatetime; calls: receiver invocations).
expiryReceiver(t, first, acc, start0, end) ==
    LET truncatedCreationTime == Truncate(t, twentyFourHours)
        projectedCreation == whitelistStart + (t - truncatedCreationTime)
    IN IF first /\ end < projectedCreation
       THEN [acc |-> [acc EXCEPT !.calls = @ + 1], cont |-> TRUE]
       ELSE LET start == IF first /\ start0 < projectedCreation
                         THEN projectedCreation ELSE start0
                intervalDuration == end - start
                reached == acc.timeToBeAdded <= intervalDuration
                projected == truncatedCreationTime
                             + ((start + acc.timeToBeAdded) - whitelistStart)
                expiry == IF projected < t
                          THEN projected + twentyFourHours ELSE projected
                left == acc.timeToBeAdded - intervalDuration
            IN [acc |-> [timeToBeAdded |-> left,
                         expiryDatetime |-> IF reached THEN expiry
                                            ELSE acc.expiryDatetime,
                         assigned |-> acc.assigned + (IF reached THEN 1 ELSE 0),
                         calls |-> acc.calls + 1,
                         passes |-> acc.passes],
                cont |-> left > 0]

\* The run of getExpiryDate: the closure's final state, with the number of
\* passes of the outer loop and whether the loop ends at all (it cannot when
\* no second is allowed and the budget is positive: no pass consumes any).
getExpiryDateRun(w, t, timeToBeAdded) ==
    LET spans == IntervalsBetween(w.whitelistHours, whitelistStart, whitelistEnd)
        RECURSIVE deliver(_, _, _)
        deliver(first, i, acc) ==
            IF i > Len(spans) THEN acc
            ELSE LET r == expiryReceiver(t, first, acc, spans[i].start,
                                         spans[i].end)
                 IN IF ~r.cont THEN r.acc ELSE deliver(first, i + 1, r.acc)
        RECURSIVE loop(_, _)
        loop(first, acc) ==
            IF acc.timeToBeAdded > 0
            THEN IF spans = << >>
                 THEN [acc EXCEPT !.passes = -1]
                 ELSE loop(FALSE,
                           deliver(first, 1, [acc EXCEPT !.passes = @ + 1]))
            ELSE acc
    IN loop(TRUE, [timeToBeAdded |-> timeToBeAdded, expiryDatetime |-> ZeroTime,
                   assigned |-> 0, calls |-> 0, passes |-> 0])

\* getExpiryDate terminates on these arguments.
getExpiryDateEnds(w, t, timeToBeAdded) ==
    getExpiryDateRun(w, t, timeToBeAdded).passes >= 0

\* getExpiryDate calculates the expiry date of a node.
getExpiryDate(w, t, timeToBeAdded) ==
    getExpiryDateRun(w, t, timeToBeAdded).expiryDatetime

(***************************************************************************)
(* main.go: the node state.  An annotation text is a tuple: << >> is the   *)
(* empty string, <<"T", t>> the RFC 3339 text of instant t, any other      *)
(* tuple a text time.Parse rejects.                                        *)
(***************************************************************************)
NoText == << >>

\* time.Time.Format(time.RFC3339)
FormatRFC3339(t) == << "T", t >>

\* time.Parse(time.RFC3339, s) succeeds.
ParsesRFC3339(s) == Len(s) = 2 /\ s[1] = "T"

\* The instant time.Parse returns when it succeeds.
ParseRFC3339(s) == s[2]

\* --drain-timeout, default 300 (seconds)
DefaultDrainTimeout == 300

\* expectedRemainingLife in getDesiredNodeState
expectedRemainingLife(now, creationTime) ==
    Max((creationTime + twentyFourHours) - now, 0)

\* kickOffDeletionBy in getDesiredNodeState
kickOffDeletionBy(now, creationTime, drainTimeoutTime) ==
    Max(expectedRemainingLife(now, creationTime) - drainTimeoutTime, 0)

\* The values randomEstafette.Intn(n) can return: 0 <= draw < n.
IntnRange(n) == 0..(n - 1)

\* randomOffset in getDesiredNodeState; draw is what Intn returned (unused
\* when Intn is not called).
randomOffset(now, creationTime, drainTimeoutTime, draw) ==
    LET drawn == IF kickOffDeletionBy(now, creationTime, drainTimeoutTime) > 0
                 THEN draw ELSE 0
    IN IF expectedRemainingLife(now, creationTime) > twelveHours
          /\ drawn < twelveHours
       THEN drawn + twelveHours ELSE drawn

\* getDesiredNodeState up to the annotation call: the text it computes.
desiredExpiryDatetime(w, now, creationTime, drainTimeoutTime, draw) ==
    FormatRFC3339(getExpiryDate(w, now,
        randomOffset(now, creationTime, drainTimeoutTime, draw)))

(***************************************************************************)
(* main.go and kubernetes_client.go: the cluster the poll loop works on.   *)
(* An error value is Nil or Failure.  A node object is a record of its     *)
(* name, creation timestamp, expiry annotation text and unschedulable      *)
(* flag; a pod is known by its name, PodSpecs giving what the API serves   *)
(* about it.                                                               *)
(***************************************************************************)
Nil == "nil"

Failure == "error"

Errors == { Nil, Failure }

\* The preemptible nodes of the cluster, in the order the API lists them.
NodeOrder == << "node-1", "node-2" >>

Nodes == { NodeOrder[i] : i \in 1..Len(NodeOrder) }

\* The pods of the cluster, in the order the API lists them.
PodOrder == << "fluentd", "web", "bare", "api", "kube-dns" >>

PodNames == { PodOrder[i] : i \in 1..Len(PodOrder) }

PodSpecs ==
    [ p \in PodNames |->
        CASE p = "fluentd" ->
               [ nodeName |-> "node-1", namespace |-> "default",
                 kubeDNS |-> FALSE, ownerReferences |-> << "DaemonSet" >> ]
          [] p = "web" ->
               [ nodeName |-> "node-1", namespace |-> "default",
                 kubeDNS |-> FALSE, ownerReferences |-> << "ReplicaSet" >> ]
          [] p = "bare" ->
               [ nodeName |-> "node-1", namespace |-> "default",
                 kubeDNS |-> FALSE, ownerReferences |-> << >> ]
          [] p = "api" ->
               [ nodeName |-> "node-1", namespace |-> "default",
                 kubeDNS |-> FALSE, ownerReferences |-> << "ReplicaSet" >> ]
          [] OTHER ->
               [ nodeName |-> "node-1", namespace |-> "kube-system",
                 kubeDNS |-> TRUE, ownerReferences |-> << "ReplicaSet" >> ] ]

\* A pod is Running, Terminating (a delete request was accepted) or Gone.
PodPhases == { "Running", "Terminating", "Gone" }

\* The v1.Pod object of pod p as far as the filters read it.
PodObject(p) ==
    [ name |-> p, ownerReferences |-> PodSpecs[p].ownerReferences ]

\* filterOutPodByOwnerReferenceKind, on a list of pod objects: the pod is
\* appended once for each of its owner references of another kind.
RECURSIVE filterOutPodByOwnerReferenceKind(_, _)
filterOutPodByOwnerReferenceKind(podList, kind) ==
    IF podList = << >> THEN << >>
    ELSE LET pod  == Head(podList)
             kept == SelectSeq(pod.ownerReferences, LAMBDA k : k # kind)
         IN [ i \in 1..Len(kept) |-> pod ]
            \o filterOutPodByOwnerReferenceKind(Tail(podList), kind)

\* filterOutPodByNode filters out a list of pods by its node.
filterOutPodByNode(podList, nodeName) ==
    SelectSeq(podList, LAMBDA p : PodSpecs[p].nodeName = nodeName)

\* Pods("").List with fieldSelector
\* spec.nodeName=<node>,metadata.namespace!=kube-system, on pod phases ph.
ListPodsOfNode(ph, nodeName) ==
    SelectSeq(PodOrder, LAMBDA p : /\ ph[p] # "Gone"
                                   /\ PodSpecs[p].nodeName = nodeName
                                   /\ PodSpecs[p].namespace # "kube-system")

\* Pods("kube-system").List with labelSelector k8s-app=kube-dns.
ListKubeDNSPods(ph) ==
    SelectSeq(PodOrder, LAMBDA p : /\ ph[p] # "Gone"
                                   /\ PodSpecs[p].namespace = "kube-system"
                                   /\ PodSpecs[p].kubeDNS)

DrainKinds == { "DrainNode", "DrainKubeDNSFromNode" }

\* The pods a drain call of this kind deletes, and its waiter waits for.
filteredPodList(kind, ph, nodeName) ==
    IF kind = "DrainNode"
    THEN LET listed == ListPodsOfNode(ph, nodeName)
             kept   == filterOutPodByOwnerReferenceKind(
                           [ i \in 1..Len(listed) |-> PodObject(listed[i]) ],
                           "DaemonSet")
         IN [ i \in 1..Len(kept) |-> kept[i].name ]
    ELSE filterOutPodByNode(ListKubeDNSPods(ph), nodeName)

\* getCurrentNodeState: the annotation text, "" when there is none.
getCurrentNodeState(node) == [ ExpiryDatetime |-> node.annotation ]

\* A time difference that is never negative: a processNode computing it
\* keeps every node.
timeDiffClamped(expiryDatetime, now) == Max(expiryDatetime - now, 0)

\* processNode: expiryDatetime.Sub(now), in seconds; its sign is that of
\* the .Minutes() the code compares with 0.
timeDiff(expiryDatetime, now) == expiryDatetime - now

\* A processNode that goes on to the next call whatever the last returned.
StepAfterIgnoringError(err, next) == next

\* processNode: "if err != nil { return }" after a collaborator call; the
\* position the call continues at.
StepAfter(err, next) == IF err # Nil THEN "done" ELSE next

\* The collaborator calls of a termination sequence, in program order.
TerminationOrder ==
    << "SetUnschedulableState", "GetProjectIdAndZoneFromNode",
       "NewGCloudClient", "DrainNode", "DrainKubeDNSFromNode", "DeleteNode",
       "GCloudDeleteNode" >>

(***************************************************************************)
(* State                                                                   *)
(***************************************************************************)
VARIABLES
    whitelistInstance,  \* the global WhitelistInstance of main.go
    drainTimeout,       \* the --drain-timeout flag, in seconds
    pc,                 \* where the main goroutine is
    probe,              \* the last direct call of a function and its result
    clock,              \* the wall clock, what time.Now() returns
    nodes,              \* the node objects of the cluster, by name
    instances,          \* the names of the cloud instances that exist
    pods,               \* the phase of every pod
    loop,               \* the poll goroutine: position, listed items, index
    proc,               \* the frame of the processNode call in progress
    drain,              \* the frame of the drain call in progress
    waiters,            \* the waiter goroutines that have not returned
    calls,              \* the collaborator calls of the processNode call
    faults              \* the number of calls that have failed so far

cfgVars == << whitelistInstance, drainTimeout >>

lifeVars == << clock, nodes, instances, pods, loop, proc, drain, waiters, calls,
              faults >>

vars == << whitelistInstance, drainTimeout, pc, probe, clock, nodes, instances,
           pods, loop, proc, drain, waiters, calls, faults >>

NoProbe == [op |-> "none"]

\* No processNode call, no drain call is in progress.
NoCall == [pc |-> "idle"]

\* The poll goroutine before its first iteration.
LoopStart == [pc |-> "list", items |-> << >>, idx |-> 1]

(***************************************************************************)
(* Bounds of the direct calls                                              *)
(***************************************************************************)
\* Budgets and node ages are whole hours up to this many, with the seconds
\* next to them.
MaxBudgetHours == 25

\* The midnight of the day the calls are made on.
BaseDay == 3 * twentyFourHours

\* The whitelist/blacklist texts tried: <<whitelist, blacklist>>.
HourRange(a, b) == << << a, 0 >>, << b, 0 >> >>

ExpiryPolicies ==
    { << << >>, << >> >>,
      << << >>, << HourRange(12, 13) >> >>,
      << << HourRange(9, 12), HourRange(13, 18) >>, << HourRange(10, 11) >> >>,
      << << HourRange(22, 2) >>, << >> >>,
      << << HourRange(0, 12) >>, << >> >>,
      << << HourRange(9, 10) >>, << >> >>,
      << << HourRange(9, 12) >>, << HourRange(9, 12) >> >> }

DrainTimeouts == { DefaultDrainTimeout, Hour }

\* Durations tried as budgets: the whole hours and the seconds around them.
Durations ==
    { d \in { k * Hour + e : k \in 0..MaxBudgetHours, e \in {-1, 0, 1} } : d >= 0 }

\* Node ages tried: the whole hours, and the drain timeout before a day.
Ages ==
    { k * Hour : k \in 0..MaxBudgetHours }
    \cup { twentyFourHours - DefaultDrainTimeout, twentyFourHours - 1 }

\* Instants tried: hours of the base day, and the second after each.
Instants == { BaseDay + k * Hour + e : k \in {0, 8, 9, 12, 16, 23}, e \in {0, 1} }

\* Draws of Intn(n) tried: its ends and the values around twelve hours.
Draws(n) ==
    IF n <= 0 THEN {0}
    ELSE { 0, 1, n - 1, twelveHours - 1, twelveHours, twelveHours - Hour }
         \cap IntnRange(n)

(***************************************************************************)
(* SpecExpiry: the configuration is parsed, then getExpiryDate and         *)
(* getDesiredNodeState are called on it with arbitrary arguments.          *)
(***************************************************************************)
InitExpiry ==
    /\ \E p \in ExpiryPolicies :
          whitelistInstance = WhitelistInstance(p[1], p[2], Empty, 0)
    /\ drainTimeout \in DrainTimeouts
    /\ pc = "start"
    /\ probe = NoProbe
    /\ clock = BaseDay
    /\ nodes = [n \in Nodes |-> [exists |-> FALSE]]
    /\ instances = {}
    /\ pods = [p \in PodNames |-> "Gone"]
    /\ loop = LoopStart
    /\ proc = NoCall
    /\ drain = NoCall
    /\ waiters = {}
    /\ calls = << >>
    /\ faults = 0

\* main's call of parseArguments with every panic recovered from.
ConfigureRecovering ==
    /\ pc = "start"
    /\ LET r == parseArguments(whitelistInstance)
       IN /\ whitelistInstance' = r.w
          /\ pc' = "configured"
    /\ UNCHANGED << drainTimeout, probe, lifeVars >>

\* main: whitelistInstance.parseArguments()
Configure ==
    /\ pc = "start"
    /\ LET r == parseArguments(whitelistInstance)
       IN /\ whitelistInstance' = r.w
          /\ pc' = IF r.ok THEN "configured" ELSE "panicked"
    /\ UNCHANGED << drainTimeout, probe, lifeVars >>

\* getExpiryDate removing from whitelistHours the spans it has delivered.
CallGetExpiryDateConsuming ==
    /\ pc = "configured"
    /\ probe = NoProbe
    /\ \E t \in Instants, d \in Durations :
          LET run == getExpiryDateRun(whitelistInstance, t, d)
              spans == IntervalsBetween(whitelistInstance.whitelistHours,
                                        whitelistStart, whitelistEnd)
          IN /\ IF run.passes >= 0
                THEN /\ probe' = [op |-> "getExpiryDate", t |-> t, d |-> d,
                                  run |-> run, expiry |-> run.expiryDatetime]
                     /\ pc' = pc
                ELSE /\ probe' = [op |-> "getExpiryDate", t |-> t, d |-> d]
                     /\ pc' = "hung"
             /\ whitelistInstance' =
                   [whitelistInstance EXCEPT !.whitelistHours =
                       IF run.calls > 0 /\ spans # << >>
                       THEN Sub(@, << spans[1] >>) ELSE @]
    /\ UNCHANGED << drainTimeout, lifeVars >>

\* whitelistInstance.getExpiryDate(t, timeToBeAdded)
CallGetExpiryDate ==
    /\ pc = "configured"
    /\ probe = NoProbe
    /\ \E t \in Instants, d \in Durations :
          LET run == getExpiryDateRun(whitelistInstance, t, d)
          IN IF run.passes >= 0
             THEN /\ probe' = [op |-> "getExpiryDate", t |-> t, d |-> d,
                               run |-> run, expiry |-> run.expiryDatetime]
                  /\ pc' = pc
             ELSE /\ probe' = [op |-> "getExpiryDate", t |-> t, d |-> d]
                  /\ pc' = "hung"
    /\ UNCHANGED << cfgVars, lifeVars >>

\* getDesiredNodeState(now, ctx, kubernetesClient, node) up to the annotation
\* call, for a node created age seconds before now.
CallGetDesiredNodeState ==
    /\ pc = "configured"
    /\ probe = NoProbe
    /\ \E now \in Instants, age \in Ages :
         \E draw \in Draws(kickOffDeletionBy(now, now - age, drainTimeout)) :
            LET creationTime == now - age
                offset == randomOffset(now, creationTime, drainTimeout, draw)
            IN IF getExpiryDateEnds(whitelistInstance, now, offset)
               THEN /\ probe' = [op |-> "getDesiredNodeState", now |-> now,
                                 creationTime |-> creationTime, draw |-> draw,
                                 offset |-> offset,
                                 ExpiryDatetime |->
                                     desiredExpiryDatetime(whitelistInstance,
                                         now, creationTime, drainTimeout, draw)]
                    /\ pc' = pc
               ELSE /\ probe' = [op |-> "getDesiredNodeState", now |-> now,
                                 creationTime |-> creationTime, draw |-> draw,
                                 offset |-> offset]
                    /\ pc' = "hung"
    /\ UNCHANGED << cfgVars, lifeVars >>

\* The call has returned; the next one starts from the same configuration.
Return ==
    /\ pc = "configured"
    /\ probe # NoProbe
    /\ probe' = NoProbe
    /\ UNCHANGED << cfgVars, pc, lifeVars >>

NextExpiry ==
    \/ Configure
    \/ CallGetExpiryDate
    \/ CallGetDesiredNodeState
    \/ Return

SpecExpiry == InitExpiry /\ [][NextExpiry]_vars

(***************************************************************************)
(* SpecFilter: filterOutPodByOwnerReferenceKind is called on arbitrary     *)
(* lists of pods.                                                          *)
(***************************************************************************)
\* Pod lists hold at most this many pods.
MaxPods == 2

\* A pod has at most this many owner references.
MaxOwners == 2

OwnerKinds == { "DaemonSet", "ReplicaSet" }

\* The sequences over set S of length at most n.
SeqUpTo(S, n) == UNION { [1..k -> S] : k \in 0..n }

\* The lists of pod objects tried: the i-th pod of a list is named by i.
PodLists ==
    { [ i \in 1..Len(owners) |-> [ name |-> i, ownerReferences |-> owners[i] ] ] :
        owners \in SeqUpTo(SeqUpTo(OwnerKinds, MaxOwners), MaxPods) }

InitFilter == InitExpiry

\* filterOutPodByOwnerReferenceKind(podList, kind)
CallFilterOutPodByOwnerReferenceKind ==
    /\ probe = NoProbe
    /\ \E podList \in PodLists, kind \in OwnerKinds :
          probe' = [op |-> "filterOutPodByOwnerReferenceKind",
                    podList |-> podList, kind |-> kind,
                    output |-> filterOutPodByOwnerReferenceKind(podList, kind)]
    /\ UNCHANGED << cfgVars, pc, lifeVars >>

\* The call has returned.
ReturnFilter ==
    /\ probe.op = "filterOutPodByOwnerReferenceKind"
    /\ probe' = NoProbe
    /\ UNCHANGED << cfgVars, pc, lifeVars >>

NextFilter ==
    \/ CallFilterOutPodByOwnerReferenceKind
    \/ ReturnFilter

SpecFilter == InitFilter /\ [][NextFilter]_vars

(***************************************************************************)
(* SpecSelector: direct calls of GetPreemptibleNodes with the label        *)
(* filters main can hand it, on a cluster of one node with any labels.     *)
(* A label map is a function from the keys it holds to their values.       *)
(***************************************************************************)
PreemptibleLabel == "cloud.google.com/gke-preemptible"

LabelKeys == { PreemptibleLabel, "pool", "zone" }

LabelValues == { "true", "false", "a" }

\* The label maps over the keys tried: the --filters maps of main, and the
\* labels of a node.
LabelMaps == UNION { [ks -> LabelValues] : ks \in SUBSET LabelKeys }

\* GetPreemptibleNodes: the label selector after the loop over the filters.
labelSelector(filters) ==
    LET base == [ k \in { PreemptibleLabel } |-> "true" ]
    IN [ k \in DOMAIN base \cup DOMAIN filters |->
           IF k \in DOMAIN filters THEN filters[k] ELSE base[k] ]

\* The API server's List with LabelSelector: labelSelector.String(): a node
\* is listed when it has every label of the selector with the same value.
SelectorMatches(selector, nodeLabels) ==
    \A k \in DOMAIN selector :
        k \in DOMAIN nodeLabels /\ nodeLabels[k] = selector[k]

InitSelector == InitExpiry

\* kubernetesClient.GetPreemptibleNodes(ctx, filters)
CallGetPreemptibleNodes ==
    /\ probe = NoProbe
    /\ \E filters \in LabelMaps, nodeLabels \in LabelMaps :
          probe' = [op |-> "GetPreemptibleNodes", filters |-> filters,
                    nodeLabels |-> nodeLabels,
                    selector |-> labelSelector(filters),
                    listed |-> SelectorMatches(labelSelector(filters),
                                               nodeLabels)]
    /\ UNCHANGED << cfgVars, pc, lifeVars >>

\* The call has returned.
ReturnSelector ==
    /\ probe.op = "GetPreemptibleNodes"
    /\ probe' = NoProbe
    /\ UNCHANGED << cfgVars, pc, lifeVars >>

NextSelector ==
    \/ CallGetPreemptibleNodes
    \/ ReturnSelector

SpecSelector == InitSelector /\ [][NextSelector]_vars

(***************************************************************************)
(* SpecJitter: direct calls of ApplyJitter on positive inputs, with every  *)
(* value R.Intn can return.                                                *)
(***************************************************************************)
\* Inputs of ApplyJitter are 1..MaxInput.
MaxInput == 40

\* ApplyJitter: deviation := int(0.25 * float64(input)), for input >= 0.
deviation(input) == input \div 4

\* R.Intn(n) panics unless n > 0.
IntnPanics(n) == n <= 0

\* ApplyJitter: the output when R.Intn returns draw.
ApplyJitter(input, draw) == input - deviation(input) + draw

InitJitter == InitExpiry

\* ApplyJitter(input)
CallApplyJitter ==
    /\ probe = NoProbe
    /\ pc = "start"
    /\ \E input \in 1..MaxInput :
          IF IntnPanics(2 * deviation(input))
          THEN /\ probe' = [op |-> "ApplyJitter", input |-> input]
               /\ pc' = "panicked"
          ELSE /\ \E draw \in IntnRange(2 * deviation(input)) :
                     probe' = [op |-> "ApplyJitter", input |-> input,
                               output |-> ApplyJitter(input, draw)]
               /\ pc' = pc
    /\ UNCHANGED << cfgVars, lifeVars >>

\* The call has returned.
ReturnJitter ==
    /\ probe.op = "ApplyJitter"
    /\ pc = "start"
    /\ probe' = NoProbe
    /\ UNCHANGED << cfgVars, pc, lifeVars >>

NextJitter ==
    \/ CallApplyJitter
    \/ ReturnJitter

SpecJitter == InitJitter /\ [][NextJitter]_vars

(***************************************************************************)
(* SpecParse: main's parseArguments on whitelist and blacklist texts of a   *)
(* few entries, well-formed and malformed, followed by the poll            *)
(* goroutine's first listing or by one direct call of processHours on the  *)
(* parsed instance.                                                        *)
(***************************************************************************)
\* Entries per text, at most.
MaxEntries == 2

\* The entry "h1:m1 - h2:m2".
Range(h1, m1, h2, m2) == << <<h1, m1>>, <<h2, m2>> >>

\* Well-formed entries: overlapping, adjacent, crossing midnight, with
\* minutes, of no length, ending at midnight.
GoodRanges ==
    { Range(9, 0, 12, 0), Range(11, 0, 13, 0), Range(12, 0, 14, 0),
      Range(22, 0, 2, 0), Range(10, 30, 11, 15), Range(9, 0, 9, 0) }

\* Malformed entries: "09:00" (no dash), "09:00-10:00-11:00" (two dashes),
\* "09:00 - 24:00" (no such hour), "9 - 10:00" (no colon).
BadRanges ==
    { << <<9, 0>> >>, << <<9, 0>>, <<10, 0>>, <<11, 0>> >>,
      Range(9, 0, 24, 0), << <<9>>, <<10, 0>> >> }

WhitelistTexts ==
    SeqUpTo(GoodRanges \cup { << <<9, 0>> >>, Range(9, 0, 24, 0) }, MaxEntries)

BlacklistTexts ==
    SeqUpTo({ Range(10, 0, 11, 0), Range(12, 0, 13, 0), Range(23, 0, 1, 0),
              << <<9>>, <<10, 0>> >>, << <<9, 0>>, <<10, 0>>, <<11, 0>> >> },
            MaxEntries)

\* Texts and directions of the direct calls of processHours.
ProcessHoursInputs ==
    { << >> }
    \cup { << r >> : r \in GoodRanges \cup BadRanges }
    \cup { << Range(18, 30, 6, 15) >>, << Range(12, 0, 0, 0) >> }

Directions == { "+", "-", "*" }

InitParse ==
    /\ \E wl \in WhitelistTexts, bl \in BlacklistTexts :
          whitelistInstance = WhitelistInstance(wl, bl, Empty, 0)
    /\ drainTimeout = DefaultDrainTimeout
    /\ pc = "start"
    /\ probe = NoProbe
    /\ clock = BaseDay
    /\ nodes = [n \in Nodes |-> [exists |-> FALSE]]
    /\ instances = {}
    /\ pods = [p \in PodNames |-> "Gone"]
    /\ loop = LoopStart
    /\ proc = NoCall
    /\ drain = NoCall
    /\ waiters = {}
    /\ calls = << >>
    /\ faults = 0

\* The hours of the reference day the spans of the direct calls of
\* mergeTimespans start and end at.
MergeHours == { 0, 9, 10, 11, 12, 13, 14, 22, 24 }

\* whitelistInstance.mergeTimespans(start, end, "+") followed by
\* whitelistInstance.mergeTimespans(start, end, "-"), on the parsed instance.
CallMergeTimespansTwice ==
    /\ pc = "configured"
    /\ probe = NoProbe
    /\ loop = LoopStart
    /\ \E h1 \in MergeHours, h2 \in MergeHours :
          LET start == whitelistStart + h1 * Hour
              end   == whitelistStart + h2 * Hour
              added == mergeTimespans(whitelistInstance.whitelistHours,
                                      start, end, "+")
              removed == mergeTimespans(added.hours, start, end, "-")
          IN /\ whitelistInstance' =
                   [whitelistInstance EXCEPT !.whitelistHours =
                       IF added.ok THEN removed.hours ELSE added.hours]
             /\ pc' = IF added.ok /\ removed.ok THEN pc ELSE "panicked"
             /\ probe' = [op |-> "mergeTimespans", start |-> start,
                          end |-> end,
                          before |-> whitelistInstance.whitelistHours,
                          added |-> added.hours]
    /\ UNCHANGED << drainTimeout, lifeVars >>

\* whitelistInstance.processHours(input, direction)
CallProcessHours ==
    /\ pc = "configured"
    /\ probe = NoProbe
    /\ loop = LoopStart
    /\ \E input \in ProcessHoursInputs, direction \in Directions :
          LET r == processHours(whitelistInstance.whitelistHours, input, direction)
          IN /\ whitelistInstance' = [whitelistInstance EXCEPT !.whitelistHours = r.hours]
             /\ pc' = IF r.ok THEN pc ELSE "panicked"
             /\ probe' = [op |-> "processHours", input |-> input,
                          direction |-> direction,
                          before |-> whitelistInstance.whitelistHours]
    /\ UNCHANGED << drainTimeout, lifeVars >>

\* whitelistInstance.parseArguments() once more, the texts unchanged, as
\* before each call of getDesiredNodeState in the tests.
CallParseArgumentsAgain ==
    /\ pc = "configured"
    /\ probe = NoProbe
    /\ loop = LoopStart
    /\ LET r == parseArguments(whitelistInstance)
       IN /\ whitelistInstance' = r.w
          /\ pc' = IF r.ok THEN pc ELSE "panicked"
          /\ probe' = [op |-> "parseArguments", before |-> whitelistInstance]
    /\ UNCHANGED << drainTimeout, lifeVars >>

\* The hours, counted from the reference midnight, the windows of the direct
\* calls of IntervalsBetween start and end at: before the day, in it, after it.
WindowHours == { -1, 0, 9, 10, 11, 12, 23, 24, 25 }

\* whitelistInstance.whitelistHours.IntervalsBetween(start, end, f) with a
\* receiver f that records its arguments and returns true.
CallIntervalsBetween ==
    /\ pc = "configured"
    /\ probe = NoProbe
    /\ loop = LoopStart
    /\ \E h1 \in WindowHours, h2 \in WindowHours :
          LET start == whitelistStart + h1 * Hour
              end   == whitelistStart + h2 * Hour
          IN /\ start < end
             /\ probe' = [op |-> "IntervalsBetween", start |-> start,
                          end |-> end,
                          set |-> whitelistInstance.whitelistHours,
                          delivered |-> IntervalsBetween(
                              whitelistInstance.whitelistHours, start, end)]
    /\ UNCHANGED << whitelistInstance, drainTimeout, pc, lifeVars >>


(***************************************************************************)
(* Spec: the program.  main parses the configuration and starts the poll   *)
(* goroutine, which lists the preemptible nodes, calls processNode on each *)
(* in turn and sleeps.  Every collaborator call is one step and may fail;  *)
(* the clock advances and terminating pods disappear on their own.         *)
(***************************************************************************)
\* The clock advances by whole hours, at most this many.
MaxClockHours == 2

\* At most this many collaborator calls fail.
MaxFaults == 1

\* The program is started at 11:00 UTC.
StartTime == BaseDay + 11 * Hour

MaxClock == StartTime + MaxClockHours * Hour

\* The whitelist/blacklist texts the program is started with.
LifePolicies ==
    { << << >>, << >> >>,
      << << >>, << HourRange(12, 13) >> >> }

\* The draws of Intn(n) tried: zero, half an hour and an hour.
LifeDraws(n) ==
    IF n <= 0 THEN {0} ELSE { 0, Hour \div 2, Hour } \cap IntnRange(n)

\* The annotation texts the nodes start with: none, or one that does not
\* parse, for node-1; an instant that has passed for node-2.
InitialAnnotations(n) ==
    IF n = "node-1" THEN { NoText, << "garbage" >> }
    ELSE { FormatRFC3339(StartTime - Hour) }

\* node-1 has 11 hours left to live, node-2 23.
InitialCreation(n) ==
    IF n = "node-1" THEN StartTime - 13 * Hour ELSE StartTime - Hour

\* main has started the poll goroutine and has not returned: it waits in
\* HandleGracefulShutdown for the signal ("configured"), has received it and
\* waits in waitGroup.Wait() ("signalled"), or is past the wait ("released").
GoroutineStarted == { "configured", "signalled", "released" }

\* The context of InitCancellationContext is cancelled: the signal arrived.
Cancelled == pc \in { "signalled", "released" }

\* A call of a collaborator returns Nil or fails; at most MaxFaults calls
\* fail.
MayFail == IF faults < MaxFaults THEN Errors ELSE { Nil }

\* The call returned err.
Count(err) == faults' = IF err # Nil THEN faults + 1 ELSE faults

\* The program as it starts: everything but the number of failed calls.
Started ==
    /\ \E p \in LifePolicies :
          whitelistInstance = WhitelistInstance(p[1], p[2], Empty, 0)
    /\ drainTimeout = DefaultDrainTimeout
    /\ pc = "start"
    /\ probe = NoProbe
    /\ clock = StartTime
    /\ \E a \in [Nodes -> UNION { InitialAnnotations(n) : n \in Nodes }] :
          /\ \A n \in Nodes : a[n] \in InitialAnnotations(n)
          /\ nodes = [n \in Nodes |->
                        [exists |-> TRUE, name |-> n,
                         creationTimestamp |-> InitialCreation(n),
                         annotation |-> a[n], unschedulable |-> FALSE]]
    /\ instances = Nodes
    /\ pods = [p \in PodNames |-> "Running"]
    /\ loop = LoopStart
    /\ proc = NoCall
    /\ drain = NoCall
    /\ waiters = {}
    /\ calls = << >>

Init == Started /\ faults = 0

\* The program as it starts when no call is going to fail.
InitFair == Started /\ faults = MaxFaults

\* Nodes().List: the node objects that exist, as they are now.
ListNodes(ns) ==
    LET names == SelectSeq(NodeOrder, LAMBDA n : ns[n].exists)
    IN [ i \in 1..Len(names) |-> ns[names[i]] ]

\* poll goroutine: kubernetesClient.GetPreemptibleNodes(ctx, labelFilters);
\* on an error it sleeps and starts over.
GetPreemptibleNodes ==
    /\ pc \in GoroutineStarted
    /\ loop.pc = "list"
    /\ \E err \in MayFail :
          /\ loop' = IF err # Nil THEN [loop EXCEPT !.pc = "sleep"]
                     ELSE [pc |-> "iterate", items |-> ListNodes(nodes),
                           idx |-> 1]
          /\ Count(err)
    /\ UNCHANGED << cfgVars, pc, probe, clock, nodes, instances, pods, proc,
                    drain, waiters, calls >>

\* processNode computing a fresh expiry whatever annotation the node has.
ProcessNodeBeginAlwaysFresh ==
    /\ loop.pc = "iterate"
    /\ loop.idx <= Len(loop.items)
    /\ LET node  == loop.items[loop.idx]
           state == getCurrentNodeState(node)
       IN proc' = [pc |-> "getDesiredNodeState",
                   node |-> node, state |-> state, now |-> ZeroTime,
                   err |-> Nil, status |-> "none"]
    /\ loop' = [loop EXCEPT !.pc = "process"]
    /\ calls' = << >>
    /\ UNCHANGED << cfgVars, pc, probe, clock, nodes, instances, pods, drain,
                    waiters, faults >>

\* poll goroutine: processNode(ctx, kubernetesClient, node) is called for the
\* next item; processNode reads the current node state.
ProcessNodeBegin ==
    /\ loop.pc = "iterate"
    /\ loop.idx <= Len(loop.items)
    /\ LET node  == loop.items[loop.idx]
           state == getCurrentNodeState(node)
       IN proc' = [pc |-> IF state.ExpiryDatetime = NoText
                          THEN "getDesiredNodeState" ELSE "evaluate",
                   node |-> node, state |-> state, now |-> ZeroTime,
                   err |-> Nil, status |-> "none"]
    /\ loop' = [loop EXCEPT !.pc = "process"]
    /\ calls' = << >>
    /\ UNCHANGED << cfgVars, pc, probe, clock, nodes, instances, pods, drain,
                    waiters, faults >>

\* A collaborator call of processNode has returned err: it is recorded, and
\* processNode returns on an error or goes on to the next call.
Returned(op, err, timedOut, next) ==
    /\ proc' = [proc EXCEPT !.err = err,
                            !.pc = StepAfter(err, next),
                            !.status = IF err # Nil THEN "failed"
                                       ELSE IF next = "done" THEN "killed"
                                       ELSE @]
    /\ calls' = Append(calls, [op |-> op, err |-> err, timedOut |-> timedOut])

\* getDesiredNodeState returning the zero state with the error of a failed
\* write.
GetDesiredNodeStateLosingState ==
    /\ proc.pc = "getDesiredNodeState"
    /\ \E draw \in LifeDraws(kickOffDeletionBy(clock,
                       proc.node.creationTimestamp, drainTimeout)),
          err \in MayFail :
          LET text == desiredExpiryDatetime(whitelistInstance, clock,
                          proc.node.creationTimestamp, drainTimeout, draw)
          IN /\ proc' = [proc EXCEPT !.state = [ExpiryDatetime |->
                                                 IF err = Nil THEN text ELSE NoText],
                                     !.pc = "evaluate"]
             /\ nodes' = IF err = Nil
                         THEN [nodes EXCEPT ![proc.node.name].annotation = text]
                         ELSE nodes
             /\ calls' = Append(calls, [op |-> "SetNodeAnnotation",
                                        err |-> err, timedOut |-> FALSE])
             /\ Count(err)
    /\ UNCHANGED << cfgVars, pc, probe, clock, instances, pods, loop, drain,
                    waiters >>

\* getDesiredNodeState(time.Now(), ...): the expiry is computed and the
\* annotation written; processNode drops the error of a failed write.
GetDesiredNodeState ==
    /\ proc.pc = "getDesiredNodeState"
    /\ \E draw \in LifeDraws(kickOffDeletionBy(clock,
                       proc.node.creationTimestamp, drainTimeout)),
          err \in MayFail :
          LET text == desiredExpiryDatetime(whitelistInstance, clock,
                          proc.node.creationTimestamp, drainTimeout, draw)
          IN /\ proc' = [proc EXCEPT !.state = [ExpiryDatetime |-> text],
                                     !.pc = "evaluate"]
             /\ nodes' = IF err = Nil
                         THEN [nodes EXCEPT ![proc.node.name].annotation = text]
                         ELSE nodes
             /\ calls' = Append(calls, [op |-> "SetNodeAnnotation",
                                        err |-> err, timedOut |-> FALSE])
             /\ Count(err)
    /\ UNCHANGED << cfgVars, pc, probe, clock, instances, pods, loop, drain,
                    waiters >>

\* processNode terminating a node from an hour before its expiry on.
EvaluateAnHourEarly ==
    /\ proc.pc = "evaluate"
    /\ LET text == proc.state.ExpiryDatetime
       IN proc' =
            IF ~ParsesRFC3339(text)
            THEN [proc EXCEPT !.now = clock, !.err = Failure, !.pc = "done",
                              !.status = "failed"]
            ELSE IF timeDiff(ParseRFC3339(text) - Hour, clock) < 0
                 THEN [proc EXCEPT !.now = clock,
                                   !.pc = "SetUnschedulableState"]
                 ELSE [proc EXCEPT !.now = clock, !.pc = "done",
                                   !.status = "skipped"]
    /\ UNCHANGED << cfgVars, pc, probe, clock, nodes, instances, pods, loop,
                    drain, waiters, calls, faults >>

\* processNode: now := time.Now().UTC(), the annotation is parsed and the
\* time difference decides between deleting and keeping the node.
Evaluate ==
    /\ proc.pc = "evaluate"
    /\ LET text == proc.state.ExpiryDatetime
       IN proc' =
            IF ~ParsesRFC3339(text)
            THEN [proc EXCEPT !.now = clock, !.err = Failure, !.pc = "done",
                              !.status = "failed"]
            ELSE IF timeDiff(ParseRFC3339(text), clock) < 0
                 THEN [proc EXCEPT !.now = clock,
                                   !.pc = "SetUnschedulableState"]
                 ELSE [proc EXCEPT !.now = clock, !.pc = "done",
                                   !.status = "skipped"]
    /\ UNCHANGED << cfgVars, pc, probe, clock, nodes, instances, pods, loop,
                    drain, waiters, calls, faults >>

\* kubernetesClient.SetUnschedulableState(ctx, name, true)
SetUnschedulableState ==
    /\ proc.pc = "SetUnschedulableState"
    /\ \E err \in MayFail :
          /\ Returned("SetUnschedulableState", err, FALSE,
                      "GetProjectIdAndZoneFromNode")
          /\ nodes' = IF err = Nil
                      THEN [nodes EXCEPT ![proc.node.name].unschedulable = TRUE]
                      ELSE nodes
          /\ Count(err)
    /\ UNCHANGED << cfgVars, pc, probe, clock, instances, pods, loop, drain,
                    waiters >>

\* kubernetesClient.GetProjectIdAndZoneFromNode(ctx, name)
GetProjectIdAndZoneFromNode ==
    /\ proc.pc = "GetProjectIdAndZoneFromNode"
    /\ \E err \in MayFail :
          /\ Returned("GetProjectIdAndZoneFromNode", err, FALSE,
                      "NewGCloudClient")
          /\ Count(err)
    /\ UNCHANGED << cfgVars, pc, probe, clock, nodes, instances, pods, loop,
                    drain, waiters >>

\* NewGCloudClient(projectID, zone)
NewGCloudClient ==
    /\ proc.pc = "NewGCloudClient"
    /\ \E err \in MayFail :
          /\ Returned("NewGCloudClient", err, FALSE, "DrainNode")
          /\ Count(err)
    /\ UNCHANGED << cfgVars, pc, probe, clock, nodes, instances, pods, loop,
                    drain, waiters >>

\* The call processNode makes after a drain call of this kind.
AfterDrain(kind) ==
    IF kind = "DrainNode" THEN "DrainKubeDNSFromNode" ELSE "DeleteNode"

\* DrainNode / DrainKubeDNSFromNode is called and lists the pods; the named
\* result err is assigned by the List call, which is returned when it fails.
DrainListPods(kind) ==
    /\ proc.pc = kind
    /\ drain = NoCall
    /\ \E err \in MayFail :
          /\ Count(err)
          /\ IF err # Nil
             THEN /\ Returned(kind, err, FALSE, AfterDrain(kind))
                  /\ drain' = drain
             ELSE /\ drain' = [pc |-> "delete", kind |-> kind,
                               nodeName |-> proc.node.name,
                               filteredPodList |->
                                   filteredPodList(kind, pods, proc.node.name),
                               i |-> 1, err |-> Nil]
                  /\ UNCHANGED << proc, calls >>
    /\ UNCHANGED << cfgVars, pc, probe, clock, nodes, instances, pods, loop,
                    waiters >>

\* The Delete call on a pod: one that is gone is not found.
PodDeleteErrors(pod) == IF pods[pod] = "Gone" THEN { Failure } ELSE MayFail

\* The delete loop of a drain call: err is assigned the result of the Delete
\* call on the next pod, and the loop continues whatever it is.  A Delete
\* that returns an error may have reached the API server all the same.
DrainDeletePod ==
    /\ drain.pc = "delete"
    /\ drain.i <= Len(drain.filteredPodList)
    /\ LET pod == drain.filteredPodList[drain.i]
       IN \E err \in PodDeleteErrors(pod), accepted \in BOOLEAN :
             /\ err = Nil => accepted
             /\ pods[pod] = "Gone" => ~accepted
             /\ drain' = [drain EXCEPT !.err = err, !.i = @ + 1]
             /\ pods' = IF accepted THEN [pods EXCEPT ![pod] = "Terminating"]
                        ELSE pods
             /\ Count(err)
    /\ UNCHANGED << cfgVars, pc, probe, clock, nodes, instances, loop, proc,
                    waiters, calls >>

\* doneDraining is made and the waiter goroutine started; the drain call
\* goes on to its select.
DrainStartWaiter ==
    /\ drain.pc = "delete"
    /\ drain.i > Len(drain.filteredPodList)
    /\ drain' = [drain EXCEPT !.pc = "select"]
    /\ waiters' = waiters \cup { [kind |-> drain.kind,
                                  nodeName |-> drain.nodeName,
                                  pc |-> "list", orphan |-> FALSE] }
    /\ UNCHANGED << cfgVars, pc, probe, clock, nodes, instances, pods, loop,
                    proc, calls, faults >>

\* The waiter goroutine lists the pods and finds none pending: it goes on to
\* send on doneDraining.  (A failed List, or pods pending, puts it to sleep
\* and back to the List: no change of state.)
WaiterPoll ==
    /\ \E w \in waiters :
          /\ w.pc = "list"
          /\ ~w.orphan
          /\ filteredPodList(w.kind, pods, w.nodeName) = << >>
          /\ waiters' = (waiters \ {w}) \cup { [w EXCEPT !.pc = "send"] }
    /\ UNCHANGED << cfgVars, pc, probe, clock, nodes, instances, pods, loop,
                    proc, drain, calls, faults >>

\* select, case <-doneDraining: the waiter's send is received, the waiter
\* returns and the drain call returns err.
DrainDone ==
    /\ drain.pc = "select"
    /\ \E w \in waiters :
          /\ ~w.orphan
          /\ w.pc = "send"
          /\ waiters' = waiters \ {w}
    /\ Returned(drain.kind, drain.err, FALSE, AfterDrain(drain.kind))
    /\ drain' = NoCall
    /\ UNCHANGED << cfgVars, pc, probe, clock, nodes, instances, pods, loop, faults >>

\* A select with no time.After case: only the waiter's send ends the wait.
DrainWithoutDeadline ==
    /\ drain.pc = "select"
    /\ FALSE
    /\ UNCHANGED vars

\* select, case <-time.After(drainTimeout): the drain call returns err; its
\* waiter is left behind with nobody to receive from doneDraining: it polls
\* until it blocks in its send, and never returns ("leaked").
DrainTimeout ==
    /\ drain.pc = "select"
    /\ waiters' = { [w EXCEPT !.orphan = TRUE, !.pc = "leaked"] : w \in waiters }
    /\ Returned(drain.kind, drain.err, TRUE, AfterDrain(drain.kind))
    /\ drain' = NoCall
    /\ UNCHANGED << cfgVars, pc, probe, clock, nodes, instances, pods, loop, faults >>

\* kubernetesClient.DeleteNode(ctx, name)
DeleteNode ==
    /\ proc.pc = "DeleteNode"
    /\ \E err \in MayFail :
          /\ Returned("DeleteNode", err, FALSE, "GCloudDeleteNode")
          /\ nodes' = IF err = Nil
                      THEN [nodes EXCEPT ![proc.node.name].exists = FALSE]
                      ELSE nodes
          /\ Count(err)
    /\ UNCHANGED << cfgVars, pc, probe, clock, instances, pods, loop, drain,
                    waiters >>

\* gcloud.DeleteNode(name)
GCloudDeleteNode ==
    /\ proc.pc = "GCloudDeleteNode"
    /\ \E err \in MayFail :
          /\ Returned("GCloudDeleteNode", err, FALSE, "done")
          /\ instances' = IF err = Nil THEN instances \ { proc.node.name }
                          ELSE instances
          /\ Count(err)
    /\ UNCHANGED << cfgVars, pc, probe, clock, nodes, pods, loop, drain,
                    waiters >>

\* The poll goroutine going on to the next item without waiting for
\* processNode to return, as with "go processNode(...)".
ProcessNodeReturnEarly ==
    /\ loop.pc = "process"
    /\ loop' = [loop EXCEPT !.pc = "iterate", !.idx = @ + 1]
    /\ UNCHANGED << cfgVars, pc, probe, clock, nodes, instances, pods, proc,
                    drain, waiters, calls, faults >>

\* The poll goroutine leaving the range over the items when processNode has
\* returned an error.
ProcessNodeReturnBreaking ==
    /\ loop.pc = "process"
    /\ proc.pc = "done"
    /\ loop' = [loop EXCEPT !.pc = "iterate",
                            !.idx = IF proc.err # Nil THEN Len(loop.items) + 1
                                    ELSE @ + 1]
    /\ proc' = NoCall
    /\ calls' = << >>
    /\ UNCHANGED << cfgVars, pc, probe, clock, nodes, instances, pods, drain,
                    waiters, faults >>

\* poll goroutine: processNode has returned; waitGroup.Done(), the error is
\* logged and the loop goes on with the next item.
ProcessNodeReturn ==
    /\ loop.pc = "process"
    /\ proc.pc = "done"
    /\ loop' = [loop EXCEPT !.pc = "iterate", !.idx = @ + 1]
    /\ proc' = NoCall
    /\ calls' = << >>
    /\ UNCHANGED << cfgVars, pc, probe, clock, nodes, instances, pods, drain,
                    waiters, faults >>

\* poll goroutine: all items are processed; time.Sleep(sleepTime).
Sleep ==
    /\ loop.pc = "iterate"
    /\ loop.idx > Len(loop.items)
    /\ loop' = [loop EXCEPT !.pc = "sleep"]
    /\ UNCHANGED << cfgVars, pc, probe, clock, nodes, instances, pods, proc,
                    drain, waiters, calls, faults >>

\* poll goroutine: the sleep is over, the loop starts over.
WakeUp ==
    /\ loop.pc = "sleep"
    /\ loop' = LoopStart
    /\ UNCHANGED << cfgVars, pc, probe, clock, nodes, instances, pods, proc,
                    drain, waiters, calls, faults >>

\* An hour passes while the program waits, in time.Sleep or in a select.
Tick ==
    /\ clock < MaxClock
    /\ loop.pc = "sleep" \/ drain.pc = "select"
    /\ clock' = clock + Hour
    /\ UNCHANGED << cfgVars, pc, probe, nodes, instances, pods, loop, proc,
                    drain, waiters, calls, faults >>

\* A terminating pod is gone.
PodGone ==
    /\ \E p \in PodNames :
          /\ pods[p] = "Terminating"
          /\ pods' = [pods EXCEPT ![p] = "Gone"]
    /\ UNCHANGED << cfgVars, pc, probe, clock, nodes, instances, loop, proc,
                    drain, waiters, calls, faults >>

\* The steps of the poll goroutine but the firing of the drain timer.
PollStep ==
    \/ GetPreemptibleNodes
    \/ ProcessNodeBegin
    \/ GetDesiredNodeState
    \/ Evaluate
    \/ SetUnschedulableState
    \/ GetProjectIdAndZoneFromNode
    \/ NewGCloudClient
    \/ \E kind \in DrainKinds : DrainListPods(kind)
    \/ DrainDeletePod
    \/ DrainStartWaiter
    \/ DrainDone
    \/ DeleteNode
    \/ GCloudDeleteNode
    \/ ProcessNodeReturn
    \/ Sleep
    \/ WakeUp

Next ==
    \/ Configure
    \/ PollStep
    \/ DrainTimeout
    \/ WaiterPoll
    \/ Tick
    \/ PodGone

Spec == Init /\ [][Next]_vars

\* No collaborator call fails, the poll goroutine keeps running and a started
\* timer fires: the goroutine takes its next step, time.After delivers.
FairSpec ==
    /\ InitFair
    /\ [][Next]_vars
    /\ WF_vars(PollStep)
    /\ WF_vars(DrainTimeout)

\* At most MaxFaults collaborator calls fail, after which none does; the
\* poll goroutine keeps running and a started timer fires.
FairRetrySpec ==
    /\ Init
    /\ [][Next]_vars
    /\ WF_vars(PollStep)
    /\ WF_vars(DrainTimeout)

(***************************************************************************)
(* SpecShutdown: the program with the termination signal, no call failing  *)
(* before it.  The signal                                                  *)
(* cancels the context every collaborator call is handed and wakes main,   *)
(* which waits for the wait group (its counter is one exactly while the    *)
(* poll goroutine is inside waitGroup.Add(1) ... waitGroup.Done()) and     *)
(* returns; the goroutines run until the process has exited.               *)
(***************************************************************************)
\* SIGTERM arrives: the context is cancelled, and of the calls handed it
\* from now on at most MaxFaults fail.
Signal ==
    /\ pc = "configured"
    /\ pc' = "signalled"
    /\ faults' = 0
    /\ UNCHANGED << cfgVars, probe, clock, nodes, instances, pods, loop, proc,
                    drain, waiters, calls >>

\* HandleGracefulShutdown: waitGroup.Wait() returns, the counter being zero.
WaitGroupWait ==
    /\ pc = "signalled"
    /\ loop.pc # "process"
    /\ pc' = "released"
    /\ UNCHANGED << cfgVars, probe, lifeVars >>

\* main returns and the process exits, whatever its goroutines are doing.
Exit ==
    /\ pc = "released"
    /\ pc' = "exited"
    /\ UNCHANGED << cfgVars, probe, lifeVars >>

\* A step of the poll goroutine, of a waiter or of the drain timer.
GoroutineStep ==
    /\ pc # "exited"
    /\ \/ PollStep
       \/ DrainTimeout
       \/ WaiterPoll

\* Time passes and pods go while the process runs.
WorldStep ==
    /\ pc # "exited"
    /\ \/ Tick
       \/ PodGone

NextShutdown ==
    \/ Configure
    \/ GoroutineStep
    \/ WorldStep
    \/ Signal
    \/ WaitGroupWait
    \/ Exit

\* No call fails before the signal; the goroutines keep running until the
\* process exits.
SpecShutdown ==
    /\ InitFair
    /\ [][NextShutdown]_vars
    /\ WF_vars(GoroutineStep)

\* SpecParse: the configuration, then the first listing or a direct call.
NextParse ==
    \/ Configure
    \/ GetPreemptibleNodes
    \/ CallProcessHours
    \/ CallMergeTimespansTwice
    \/ CallIntervalsBetween
    \/ CallParseArgumentsAgain

SpecParse == InitParse /\ [][NextParse]_vars


(***************************************************************************)
(* What the claims about the expiry computation speak of                   *)
(***************************************************************************)
RECURSIVE SumDurations(_)
SumDurations(spans) ==
    IF spans = << >> THEN 0
    ELSE (Head(spans).end - Head(spans).start) + SumDurations(Tail(spans))

\* Allowed seconds of one day before time of day x (0 <= x <= 24h).
AllowedInDayPrefix(w, x) ==
    SumDurations(isetIntervalsBetween(w.whitelistHours, whitelistStart,
                                      whitelistStart + x))

\* Allowed seconds of the daily repeating pattern before instant x.
AllowedBefore(w, x) ==
    (x \div twentyFourHours) * AllowedInDayPrefix(w, twentyFourHours)
    + AllowedInDayPrefix(w, TimeOfDay(x))

\* Allowed seconds of the daily repeating pattern in [a, b).
AllowedSecondsBetween(w, a, b) == AllowedBefore(w, b) - AllowedBefore(w, a)

\* The time of day of instant x lies in a half-open span of the allowed hours.
InAllowedSpan(w, x) ==
    \E i \in 1..Len(w.whitelistHours) :
        /\ w.whitelistHours[i].start <= whitelistStart + TimeOfDay(x)
        /\ whitelistStart + TimeOfDay(x) < w.whitelistHours[i].end

GetExpiryDateReturned == probe.op = "getExpiryDate" /\ pc # "hung"

GetDesiredNodeStateReturned == probe.op = "getDesiredNodeState" /\ pc # "hung"

DesiredExpiry == ParseRFC3339(probe.ExpiryDatetime)

\* C3: with no whitelist and no blacklist, for creation <= now < creation+24h,
\* the expiry getDesiredNodeState computes is not later than
\* creation + 24h - drainTimeout.
C3_ExpiryBeforePreemption ==
    ( /\ GetDesiredNodeStateReturned
      /\ whitelistInstance.whitelist = << >>
      /\ whitelistInstance.blacklist = << >>
      /\ probe.creationTime <= probe.now
      /\ probe.now < probe.creationTime + twentyFourHours )
    => DesiredExpiry <= probe.creationTime + twentyFourHours - drainTimeout

\* C4: when the remaining life at now exceeds 12h, the expiry
\* getDesiredNodeState computes is at least creation + 12h, for every policy
\* with an allowed second per day.
C4_NeverInFirstTwelveHours ==
    ( /\ GetDesiredNodeStateReturned
      /\ whitelistInstance.whitelistSecondCount > 0
      /\ expectedRemainingLife(probe.now, probe.creationTime) > twelveHours )
    => DesiredExpiry >= probe.creationTime + twelveHours

\* C5: for every policy with an allowed second per day and every budget
\* d > 0, the allowed seconds in [t, getExpiryDate(t, d)) number exactly d.
C5_CountsOnlyAllowedSeconds ==
    ( /\ GetExpiryDateReturned
      /\ whitelistInstance.whitelistSecondCount > 0
      /\ probe.d > 0 )
    => /\ probe.expiry >= probe.t
       /\ AllowedSecondsBetween(whitelistInstance, probe.t, probe.expiry) = probe.d

\* C6: for every budget d between 0 and 3 * allowedSecondsPerDay, the time of
\* day of getExpiryDate(t, d) lies inside a half-open span of the allowed
\* hours.
C6_ExpiryInsideAllowedSpan ==
    ( /\ GetExpiryDateReturned
      /\ probe.d >= 0
      /\ probe.d <= 3 * whitelistInstance.whitelistSecondCount )
    => InAllowedSpan(whitelistInstance, probe.expiry)

\* C7: for every budget d >= 0, getExpiryDate(t, d) is not before t, and so
\* the expiry getDesiredNodeState computes is not before now.
C7_ExpiryNotBeforeNow ==
    /\ GetExpiryDateReturned => probe.expiry >= probe.t
    /\ GetDesiredNodeStateReturned => DesiredExpiry >= probe.now


(***************************************************************************)
(* What the claims about the node lifecycle speak of                       *)
(***************************************************************************)
\* The collaborator calls of the termination sequence made so far by the
\* processNode call in progress.
TerminationCalls == SelectSeq(calls, LAMBDA c : c.op # "SetNodeAnnotation")

TerminationSteps == { TerminationOrder[i] : i \in 1..Len(TerminationOrder) }

\* A call of the processNode call in progress failed, or a drain timed out.
SomeCallFailed == \E i \in 1..Len(calls) : calls[i].err # Nil \/ calls[i].timedOut

\* The processNode call in progress was made on a node whose annotation
\* held an instant that had passed when the call read the clock.
ObservedExpired ==
    /\ proc.pc \in TerminationSteps \cup { "done" }
    /\ ParsesRFC3339(proc.node.annotation)
    /\ ParseRFC3339(proc.node.annotation) < proc.now

\* No pod that a drain of node n waits for is left.
Drained(n) ==
    \A kind \in DrainKinds : filteredPodList(kind, pods, n) = << >>

\* The processNode call in progress has cordoned and drained node n and
\* deleted its node object and its instance.
Killed(n) ==
    /\ proc.pc = "done"
    /\ proc.node.name = n
    /\ proc.status = "killed"
    /\ [ i \in 1..Len(TerminationCalls) |-> TerminationCalls[i].op ]
          = TerminationOrder
    /\ nodes[n].unschedulable
    /\ Drained(n)
    /\ ~nodes[n].exists
    /\ n \notin instances

\* Node n is among the items the poll cycle has still to process, with an
\* annotation holding an instant that has passed.
ListedExpired(n) ==
    /\ loop.pc = "iterate"
    /\ \E i \in loop.idx..Len(loop.items) :
          /\ loop.items[i].name = n
          /\ ParsesRFC3339(loop.items[i].annotation)
          /\ ParseRFC3339(loop.items[i].annotation) < clock

\* The time of day tod lies in an interval of the blacklist text.
InBlacklist(w, tod) ==
    \E i \in 1..Len(w.blacklist) :
        LET start == ParsedTime(w.blacklist[i][1]) - whitelistStart
            end   == ParsedTime(w.blacklist[i][2]) - whitelistStart
        IN IF start <= end THEN start <= tod /\ tod < end
           ELSE start <= tod \/ tod < end

\* C1: within one processNode call the collaborator calls of the termination
\* sequence are made in program order (cordon, project and zone, cloud
\* client, DrainNode, DrainKubeDNSFromNode, DeleteNode, cloud DeleteNode);
\* every call but the last made returned nil, and a call that returned an
\* error ended processNode.
C1_StrictOrderStopAtFirstFailure ==
    LET t == TerminationCalls
    IN /\ Len(t) <= Len(TerminationOrder)
       /\ \A i \in 1..Len(t) :
             /\ t[i].op = TerminationOrder[i]
             /\ i < Len(t) => t[i].err = Nil
       /\ (Len(t) > 0 /\ t[Len(t)].err # Nil) => proc.pc = "done"
       /\ proc.pc \in TerminationSteps =>
             /\ Len(t) < Len(TerminationOrder)
             /\ proc.pc = TerminationOrder[Len(t) + 1]

\* C1 witness: a processNode call has made all seven calls, each after the
\* success of the one before, the drains having completed.
C1_Witness ==
    /\ proc.pc = "done"
    /\ Len(TerminationCalls) = Len(TerminationOrder)
    /\ \A i \in 1..Len(calls) : calls[i].err = Nil /\ ~calls[i].timedOut
    /\ proc.node.name = "node-1"

C8_NoTerminationInBlacklist ==
    proc.pc \in TerminationSteps =>
        ~InBlacklist(whitelistInstance, TimeOfDay(proc.now))

\* C9: a drain call that returned because its timeout elapsed returned a
\* non-nil error.
C9_DrainTimeoutIsAnError ==
    \A i \in 1..Len(calls) : calls[i].timedOut => calls[i].err # Nil

\* C10: after a drain of a processNode call timed out, the call deletes
\* neither the node object nor the instance, and it returns an error.
C10_NoDeletionAfterDrainTimeout ==
    \A i \in 1..Len(calls) :
        calls[i].timedOut =>
            /\ \A j \in 1..Len(calls) :
                  calls[j].op \notin { "DeleteNode", "GCloudDeleteNode" }
            /\ proc.pc = "done" => proc.err # Nil

\* C11: when a processNode call on a node whose persisted expiry has passed
\* ends with an error, the node object and the instance of that node are
\* eventually both deleted (calls stop failing once MaxFaults have failed).
C11_FailedTerminationIsRetried ==
    \A n \in Nodes :
        (proc.pc = "done" /\ proc.node.name = n /\ ObservedExpired
            /\ proc.err # Nil)
        ~> (~nodes[n].exists /\ n \notin instances)

\* Pod p has an owner reference of this kind.
OwnedBy(p, kind) ==
    \E i \in 1..Len(PodSpecs[p].ownerReferences) :
        PodSpecs[p].ownerReferences[i] = kind

\* The pods scheduled on node n, outside kube-system, that no DaemonSet owns.
PodsToDrain(n) ==
    { p \in PodNames : /\ PodSpecs[p].nodeName = n
                       /\ PodSpecs[p].namespace # "kube-system"
                       /\ ~OwnedBy(p, "DaemonSet") }

\* C12: when DrainNode has returned nil because its waiter found no pod
\* pending, no pod scheduled on the node outside kube-system and not owned
\* by a DaemonSet remains.
C12_DrainSuccessMeansNoPodLeft ==
    \A i \in 1..Len(calls) :
        (calls[i].op = "DrainNode" /\ calls[i].err = Nil /\ ~calls[i].timedOut)
        => \A p \in PodsToDrain(proc.node.name) : pods[p] = "Gone"

\* The owner references of this pod object hold one of this kind.
ObjectOwnedBy(pod, kind) ==
    \E i \in 1..Len(pod.ownerReferences) : pod.ownerReferences[i] = kind

\* C13: filterOutPodByOwnerReferenceKind returns the pods of its input that
\* have no owner reference of the kind, each once and in input order.
C13_FilterKeepsExactlyTheOthers ==
    probe.op = "filterOutPodByOwnerReferenceKind" =>
        probe.output = SelectSeq(probe.podList,
                           LAMBDA pod : ~ObjectOwnedBy(pod, probe.kind))

\* C14: a drain call that returns because its waiter found no pod pending
\* returns nil, whatever the Delete calls of its delete loop returned.
C14_CompletedDrainReturnsNil ==
    [][DrainDone => proc'.err = Nil]_vars


(***************************************************************************)
(* The allowed seconds of a day, read off the texts: every time of the     *)
(* texts tried is a multiple of a quarter of an hour, so a day is counted  *)
(* in quarters.                                                            *)
(***************************************************************************)
Quarter == Hour \div 4

\* Seconds since midnight of the time "hh:mm".
SecondOfDay(field) == field[1] * Hour + field[2] * 60

\* The range "start - end" holds second x of the day; a range whose end is
\* earlier than its start runs over midnight.
RangeHolds(r, x) ==
    LET start == SecondOfDay(r[1])
        end   == SecondOfDay(r[2])
    IN IF start <= end THEN start <= x /\ x < end
       ELSE x >= start \/ x < end

\* The quarters of a day inside the whitelist ranges (all, when there is
\* none) and inside no blacklist range.
AllowedQuarters(wl, bl) ==
    { k \in 0..(twentyFourHours \div Quarter - 1) :
        /\ wl = << >> \/ \E i \in 1..Len(wl) : RangeHolds(wl[i], k * Quarter)
        /\ \A j \in 1..Len(bl) : ~RangeHolds(bl[j], k * Quarter) }

\* C15: after parseArguments has accepted the texts, whitelistSecondCount is
\* the number of seconds of a day inside the union of the whitelist ranges
\* (the whole day when the whitelist is empty) and inside no blacklist range.
C15_SecondCountIsAllowedSeconds ==
    (pc = "configured" /\ probe = NoProbe) =>
        whitelistInstance.whitelistSecondCount
            = Quarter * Cardinality(AllowedQuarters(whitelistInstance.whitelist,
                                                    whitelistInstance.blacklist))

\* Overlapping whitelist ranges and a blacklist range inside them were parsed.
C15_Witness ==
    /\ pc = "configured"
    /\ probe = NoProbe
    /\ whitelistInstance.whitelist = << Range(9, 0, 12, 0), Range(11, 0, 13, 0) >>
    /\ whitelistInstance.blacklist = << Range(10, 0, 11, 0) >>
    /\ whitelistInstance.whitelistSecondCount = 3 * Hour

\* The set of spans holds the instant x seconds into the reference day.
InHours(hours, x) ==
    \E i \in 1..Len(hours) :
        hours[i].start <= whitelistStart + x /\ whitelistStart + x < hours[i].end

\* The probe is a returned call of processHours on one entry whose end time
\* is earlier than its start time.
ProcessHoursOverMidnight ==
    /\ probe.op = "processHours"
    /\ pc = "configured"
    /\ probe.direction \in { "+", "-" }
    /\ Len(probe.input) = 1
    /\ Len(probe.input[1]) = 2
    /\ SecondOfDay(probe.input[1][2]) < SecondOfDay(probe.input[1][1])

\* C16: processHours on a range that crosses midnight adds (+) or removes (-)
\* the spans [start, 24:00) and [00:00, end) and no other instant: what lies
\* from end up to start is in the set after the call iff it was before.
C16_MidnightRangeIsTwoSpans ==
    ProcessHoursOverMidnight =>
        LET start == SecondOfDay(probe.input[1][1])
            end   == SecondOfDay(probe.input[1][2])
        IN \A k \in 0..(twentyFourHours \div Quarter - 1) :
              LET x == k * Quarter
              IN InHours(whitelistInstance.whitelistHours, x)
                 = IF (start <= x /\ x < twentyFourHours) \/ (0 <= x /\ x < end)
                   THEN probe.direction = "+"
                   ELSE InHours(probe.before, x)

\* "22:00 - 02:00" was subtracted from a set that held instants on both sides
\* of it and inside it.
C16_Witness ==
    /\ ProcessHoursOverMidnight
    /\ probe.direction = "-"
    /\ probe.input = << Range(22, 0, 2, 0) >>
    /\ InHours(probe.before, 23 * Hour)
    /\ InHours(probe.before, Hour)
    /\ InHours(probe.before, 12 * Hour)
    /\ InHours(whitelistInstance.whitelistHours, 12 * Hour)
    /\ ~InHours(whitelistInstance.whitelistHours, 23 * Hour)

\* The text holds an entry that is not two fields around one dash, or a field
\* that is not a time.
Malformed(text) ==
    \E i \in 1..Len(text) :
        \/ Len(text[i]) # 2
        \/ \E j \in 1..Len(text[i]) : ~ParsesAsTime(text[i][j])

\* C17: with a malformed whitelist or blacklist entry the program panics in
\* main's parseArguments, before the poll goroutine has listed any node; and
\* a call of processHours that meets a malformed entry, or that merges with a
\* direction other than "+" and "-", panics.
C17_MalformedConfigurationPanics ==
    /\ (Malformed(whitelistInstance.whitelist) \/ Malformed(whitelistInstance.blacklist))
          => /\ pc \in { "start", "panicked" }
             /\ loop = LoopStart
             /\ proc = NoCall
    /\ (/\ probe.op = "processHours"
        /\ \/ Malformed(probe.input)
           \/ probe.direction \notin { "+", "-" } /\ probe.input # << >>)
          => pc = "panicked"

\* The second blacklist entry was malformed and stopped the program
\* before its first listing.
C17_Witness ==
    /\ pc = "panicked"
    /\ ~Malformed(whitelistInstance.whitelist)
    /\ Len(whitelistInstance.blacklist) = 2
    /\ ~Malformed(<< whitelistInstance.blacklist[1] >>)
    /\ Malformed(<< whitelistInstance.blacklist[2] >>)
    /\ loop = LoopStart

\* C18: a policy that allows no second of the day does not get past the
\* configuration: once parseArguments has returned, some second is allowed,
\* and getExpiryDate is never called on an empty set of allowed spans.
C18_ZeroAllowedPolicyIsRejected ==
    pc \in { "configured", "hung" } =>
        /\ whitelistInstance.whitelistSecondCount > 0
        /\ whitelistInstance.whitelistHours # Empty

\* C19: a call of getExpiryDate with a budget below twenty-four hours returns,
\* and its outer loop has made at most three passes over the reference window.
C19_AtMostThreePasses ==
    (probe.op = "getExpiryDate" /\ probe.d < twentyFourHours) =>
        /\ pc # "hung"
        /\ probe.run.passes <= 3

\* C20: processNode treats the node it was handed as new, computing a fresh
\* expiry, exactly when the node's annotation is absent or does not parse as
\* RFC 3339; otherwise the expiry it uses is the annotation's.
C20_UnparsableAnnotationIsNew ==
    proc.pc # "idle" =>
        IF ParsesRFC3339(proc.node.annotation)
        THEN proc.state.ExpiryDatetime = proc.node.annotation
        ELSE \/ proc.pc = "getDesiredNodeState"
             \/ /\ proc.state.ExpiryDatetime # proc.node.annotation
                /\ ParsesRFC3339(proc.state.ExpiryDatetime)

\* The processNode call in progress computed a fresh expiry and its
\* SetNodeAnnotation failed.
AnnotationWriteFailed ==
    /\ proc.pc # "idle"
    /\ calls # << >>
    /\ calls[1].op = "SetNodeAnnotation"
    /\ calls[1].err # Nil

\* C21: when SetNodeAnnotation fails, processNode goes on with the computed
\* expiry (the node is kept, or its termination begins, by that expiry; the
\* failure is not processNode's error), nothing is persisted, and a
\* processNode call handed a node without annotation computes an expiry.
C21_FailedAnnotationIsSoft ==
    /\ [](AnnotationWriteFailed =>
            /\ ParsesRFC3339(proc.state.ExpiryDatetime)
            /\ nodes[proc.node.name].annotation = NoText
            /\ proc.pc = "done" =>
                  IF timeDiff(ParseRFC3339(proc.state.ExpiryDatetime), proc.now) < 0
                  THEN Len(calls) >= 2
                  ELSE proc.status = "skipped" /\ proc.err = Nil)
    /\ [][(ProcessNodeBegin /\ loop.items[loop.idx].annotation = NoText)
             => proc'.pc = "getDesiredNodeState"]_vars

\* The node was kept by an expiry whose write had failed.
C21_Witness ==
    /\ AnnotationWriteFailed
    /\ proc.pc = "done"
    /\ proc.status = "skipped"

\* processNode has returned an error for an item that is not the last of the
\* listing, and n is the next item.
FailedBefore(n) ==
    /\ loop.pc = "process"
    /\ proc.pc = "done"
    /\ proc.err # Nil
    /\ loop.idx < Len(loop.items)
    /\ loop.items[loop.idx + 1].name = n

\* C22: whatever collaborator call fails, the poll goroutine goes on: after
\* processNode has failed on an item, processNode is called on the next item
\* of the listing; every cycle reaches its sleep, and every sleep is followed
\* by the next listing.
C22_PollLoopNeverStops ==
    /\ \A n \in Nodes :
          FailedBefore(n) ~> (proc.pc # "idle" /\ proc.node.name = n)
    /\ (pc = "configured" /\ loop.pc # "sleep") ~> (loop.pc = "sleep")
    /\ (loop.pc = "sleep") ~> (loop.pc = "list")

\* A collaborator call of node-1's termination failed and node-2 is next.
C22_Witness ==
    /\ FailedBefore("node-2")
    /\ calls # << >>
    /\ calls[Len(calls)].err # Nil
    /\ calls[Len(calls)].op \in { "SetUnschedulableState", "DrainNode", "DeleteNode" }

\* The processNode call in progress is between the first and the last call
\* of its termination sequence.
MidTermination ==
    proc.pc \in TerminationSteps \ { "SetUnschedulableState" }

\* C23: once the signal has arrived no call of the sequence in progress is
\* failed by it, the poll goroutine starts processNode on no further node,
\* and the process does not exit between the first and the last call of a
\* termination sequence.
C23_ShutdownBetweenIterations ==
    /\ [][(Cancelled /\ proc.pc \in TerminationSteps /\ proc'.pc # proc.pc)
            => proc'.err = Nil \/ calls'[Len(calls')].timedOut]_vars
    /\ [][Cancelled => ~ProcessNodeBegin]_vars
    /\ [](pc = "exited" => ~MidTermination)

\* C24: processNode runs for one item at a time, inside the poll goroutine:
\* a call is in progress only while the goroutine is at that item, a drain
\* call only inside the processNode call for its node, and neither the next
\* processNode call nor the next listing starts while one is in progress.
C24_OneNodeAtATime ==
    /\ [](/\ proc.pc # "idle" =>
                /\ loop.pc = "process"
                /\ loop.idx \in 1..Len(loop.items)
                /\ proc.node = loop.items[loop.idx]
          /\ drain.pc # "idle" =>
                /\ proc.pc = drain.kind
                /\ drain.nodeName = proc.node.name)
    /\ [][ProcessNodeBegin => (proc = NoCall /\ drain = NoCall)]_vars
    /\ [][GetPreemptibleNodes => (proc = NoCall /\ drain = NoCall)]_vars

\* node-2 is being drained after processNode has returned for node-1.
C24_Witness ==
    /\ loop.idx = 2
    /\ proc.pc = "DrainNode"
    /\ proc.node.name = "node-2"
    /\ drain.pc = "select"

\* C25: a waiter goroutine exists only while the drain call that started it
\* waits in its select: once the call has returned, by completion or by
\* timeout, its waiter has returned too and none is left behind.
C25_WaiterEndsWithItsDrain ==
    \A w \in waiters :
        /\ ~w.orphan
        /\ drain.pc = "select"
        /\ w.kind = drain.kind
        /\ w.nodeName = drain.nodeName

\* C26: ApplyJitter(n) returns for every positive n, with a result in
\* [0.75 n, 1.25 n).
C26_JitterWithinQuarter ==
    probe.op = "ApplyJitter" =>
        /\ pc # "panicked"
        /\ 3 * probe.input <= 4 * probe.output
        /\ 4 * probe.output < 5 * probe.input

\* C27: the expiry getDesiredNodeState computes at now does not make
\* processNode terminate the node at that same now; it does once the clock
\* is past the expiry.
C27_FreshExpiryIsNotExpired ==
    GetDesiredNodeStateReturned =>
        /\ ~(timeDiff(DesiredExpiry, probe.now) < 0)
        /\ timeDiff(DesiredExpiry, DesiredExpiry + 1) < 0

\* C28: processNode starts the termination sequence exactly when the instant
\* it read is not before the expiry it parsed, the two being equal included.
C28_TerminatesFromExpiryOn ==
    (proc.pc \notin { "idle", "getDesiredNodeState", "evaluate" }
       /\ ParsesRFC3339(proc.state.ExpiryDatetime)) =>
        ((proc.status # "skipped")
            <=> (proc.now >= ParseRFC3339(proc.state.ExpiryDatetime)))

\* C29: whatever filters the caller supplies, the selector of
\* GetPreemptibleNodes requires the preemptible label to be "true" and keeps
\* every requirement of the filters, so a listed node is preemptible.
C29_SelectorRequiresPreemptible ==
    probe.op = "GetPreemptibleNodes" =>
        /\ PreemptibleLabel \in DOMAIN probe.selector
        /\ probe.selector[PreemptibleLabel] = "true"
        /\ probe.listed =>
              /\ PreemptibleLabel \in DOMAIN probe.nodeLabels
              /\ probe.nodeLabels[PreemptibleLabel] = "true"

\* The seconds of the reference day a set of spans covers.
CoveredSeconds(hours) ==
    countWhitelistSeconds(IntervalsBetween(hours, whitelistStart, whitelistEnd),
                          1, 0)

\* The probe is a returned pair of mergeTimespans calls, + then -, of a span
\* that overlaps no span of the set it was added to.
MergedAndRemovedApart ==
    /\ probe.op = "mergeTimespans"
    /\ pc = "configured"
    /\ \A i \in 1..Len(probe.before) :
          \/ probe.end <= probe.before[i].start
          \/ probe.before[i].end <= probe.start

\* C30: adding a span that overlaps nothing of the set and then removing the
\* same span gives back the set: the same spans, the same seconds covered.
C30_AddThenRemoveRestores ==
    MergedAndRemovedApart =>
        /\ whitelistInstance.whitelistHours = probe.before
        /\ CoveredSeconds(whitelistInstance.whitelistHours)
              = CoveredSeconds(probe.before)

\* A span adjoining a span of the set was merged into it and cut off again.
C30_Witness ==
    /\ MergedAndRemovedApart
    /\ probe.start < probe.end
    /\ probe.before # Empty
    /\ Len(probe.added) = Len(probe.before)
    /\ probe.added # probe.before
    /\ whitelistInstance.whitelistHours = probe.before

\* The probe is a returned pair of mergeTimespans calls, + then -, of a span
\* of no length.
MergedNoLength ==
    /\ probe.op = "mergeTimespans"
    /\ pc = "configured"
    /\ probe.start = probe.end

\* C31: mergeTimespans of a span of no length leaves the set and the seconds
\* it covers as they were, with "+" and with "-", wherever the instant lies.
C31_ZeroLengthMergeChangesNothing ==
    MergedNoLength =>
        /\ probe.added = probe.before
        /\ whitelistInstance.whitelistHours = probe.added
        /\ CoveredSeconds(probe.added) = CoveredSeconds(probe.before)

\* The instant lay inside a span of a set that also has a gap.
C31_Witness ==
    /\ MergedNoLength
    /\ Len(probe.before) >= 2
    /\ \E i \in 1..Len(probe.before) :
          probe.before[i].start < probe.start /\ probe.start < probe.before[i].end
    /\ whitelistInstance.whitelistHours = probe.before

\* The instant t lies in a span of the sequence spans.
Covers(spans, t) ==
    \E i \in 1..Len(spans) : spans[i].start <= t /\ t < spans[i].end

\* The instants of a window, a quarter of an hour apart.
WindowInstants(start, end) ==
    { start + k * Quarter : k \in 0..((end - start) \div Quarter - 1) }

\* C32: IntervalsBetween hands the receiver spans in ascending order, each
\* inside the window, no two touching or overlapping; an instant of the
\* window lies in exactly one span handed on when the set covers it and in
\* none when it does not.
C32_DeliversClippedApartSpans ==
    probe.op = "IntervalsBetween" =>
        LET d == probe.delivered
        IN /\ \A i \in 1..Len(d) :
                 /\ probe.start <= d[i].start
                 /\ d[i].start < d[i].end
                 /\ d[i].end <= probe.end
           /\ \A i \in 1..(Len(d) - 1) : d[i].end < d[i + 1].start
           /\ \A t \in WindowInstants(probe.start, probe.end) :
                 Cardinality({ i \in 1..Len(d) :
                                  d[i].start <= t /\ t < d[i].end })
                    = IF Covers(probe.set, t) THEN 1 ELSE 0

\* A window that cuts a span of the set at both of its ends and holds
\* another span and a gap: two spans were handed on, the first one clipped.
C32_Witness ==
    /\ probe.op = "IntervalsBetween"
    /\ Len(probe.delivered) >= 2
    /\ \E i \in 1..Len(probe.set) :
          /\ probe.set[i].start < probe.start
          /\ probe.start < probe.set[i].end
    /\ probe.delivered[1].start = probe.start
    /\ \E j \in 1..Len(probe.set) :
          /\ probe.set[j].start < probe.end
          /\ probe.end < probe.set[j].end

\* C33: the budget getDesiredNodeState passes to getExpiryDate is 0 when the
\* latest safe offset is 0, otherwise the draw, a value from 0 up to the
\* latest safe offset, increased by 12h exactly when the remaining life
\* exceeds 12h and the draw is below 12h; it is below 24h, at least 12h
\* whenever the remaining life exceeds 12h, and never above the latest safe
\* offset.
C33_OffsetFollowsRule ==
    probe.op = "getDesiredNodeState" =>
        LET remainingLife ==
                Max(probe.creationTime + twentyFourHours - probe.now, 0)
            latestSafeOffset == Max(remainingLife - drainTimeout, 0)
            drawn == IF latestSafeOffset = 0 THEN 0 ELSE probe.draw
        IN /\ 0 <= drawn /\ drawn <= latestSafeOffset
           /\ probe.offset = IF remainingLife > twelveHours /\ drawn < twelveHours
                             THEN drawn + twelveHours ELSE drawn
           /\ probe.offset < twentyFourHours
           /\ remainingLife > twelveHours => probe.offset >= twelveHours
           /\ probe.offset <= latestSafeOffset

\* C34: a drain call that has issued its delete requests and waits in its
\* select returns, whether or not the pods ever disappear.
C34_DrainReturns ==
    (drain.pc = "select") ~> (drain = NoCall)

\* A drain call has returned on its deadline with a pod still pending: its
\* waiter was left behind.
C34_Witness ==
    /\ drain = NoCall
    /\ \E w \in waiters :
          /\ w.orphan
          /\ filteredPodList(w.kind, pods, w.nodeName) # << >>

\* C35: once parseArguments has run, no step changes the allowed hours or
\* whitelistSecondCount: after every call of getExpiryDate and of
\* getDesiredNodeState they are what parseArguments builds from the whitelist
\* and blacklist texts.
C35_AllowedHoursWrittenOnlyAtStartup ==
    /\ [](pc \in { "configured", "hung" } =>
             whitelistInstance = parseArguments(whitelistInstance).w)
    /\ [][pc # "start" =>
             /\ whitelistInstance'.whitelistHours = whitelistInstance.whitelistHours
             /\ whitelistInstance'.whitelistSecondCount
                   = whitelistInstance.whitelistSecondCount]_vars

\* getExpiryDate has gone over the allowed spans more than twice and has
\* returned; the set has more than one span.
C35_Witness ==
    /\ GetExpiryDateReturned
    /\ probe.run.passes > 2
    /\ Len(whitelistInstance.whitelistHours) > 1
    /\ whitelistInstance.whitelistSecondCount > 0

\* The calls of SetNodeAnnotation the processNode call in progress has made.
AnnotationWrites ==
    SelectSeq(calls, LAMBDA c : c.op = "SetNodeAnnotation")

\* C36: SetNodeAnnotation is called only for a node listed without an expiry
\* annotation and at most once in a processNode call; no step changes an
\* annotation that parses; and a processNode call past its reading of the
\* state decides by the annotation the node carries, when it parses.
C36_AnnotationIsWriteOnce ==
    /\ [](proc.pc # "idle" =>
            /\ Len(AnnotationWrites) <= 1
            /\ AnnotationWrites # << >> => proc.node.annotation = NoText
            /\ (proc.pc # "getDesiredNodeState"
                  /\ ParsesRFC3339(nodes[proc.node.name].annotation)) =>
                  proc.state.ExpiryDatetime = nodes[proc.node.name].annotation)
    /\ [][\A n \in Nodes :
             ParsesRFC3339(nodes[n].annotation) =>
                nodes'[n].annotation = nodes[n].annotation]_vars

\* A later cycle has kept node-1 by the expiry an earlier cycle wrote: the
\* node was listed with it and no call was made.
C36_Witness ==
    /\ proc.pc = "done"
    /\ proc.node.name = "node-1"
    /\ ParsesRFC3339(proc.node.annotation)
    /\ proc.state.ExpiryDatetime = nodes["node-1"].annotation
    /\ proc.status = "skipped"
    /\ calls = << >>

\* processNode is at work on a node listed with an annotation that parses
\* and whose expiry is later than the clock.
ExpiryInFuture ==
    /\ proc.pc # "idle"
    /\ ParsesRFC3339(proc.node.annotation)
    /\ clock < ParseRFC3339(proc.node.annotation)

\* C37: processNode on a node whose annotated expiry lies in the future makes
\* no collaborator call, changes no node, pod or instance, and returns
\* success with the node counted as skipped.
C37_FutureExpiryHasNoEffect ==
    /\ [](ExpiryInFuture =>
            /\ calls = << >>
            /\ proc.pc \in { "evaluate", "done" }
            /\ drain = NoCall
            /\ proc.pc = "done" => (proc.status = "skipped" /\ proc.err = Nil))
    /\ [][(ExpiryInFuture /\ (proc' # proc \/ drain' # drain \/ calls' # calls))
             => (nodes' = nodes /\ instances' = instances /\ pods' = pods)]_vars

\* processNode has returned for a node whose annotated expiry is half an hour
\* or more away: the node is still schedulable and its instance exists.
C37_Witness ==
    /\ ExpiryInFuture
    /\ proc.pc = "done"
    /\ proc.now + Hour \div 2 <= ParseRFC3339(proc.node.annotation)
    /\ ~nodes[proc.node.name].unschedulable
    /\ nodes[proc.node.name].exists
    /\ proc.node.name \in instances

\* C38: parseArguments called again on a configured instance, the whitelist
\* and blacklist texts unchanged, returns and leaves the same allowed hours
\* and the same whitelistSecondCount.
C38_ParseArgumentsIsIdempotent ==
    probe.op = "parseArguments" =>
        /\ pc = "configured"
        /\ whitelistInstance.whitelistHours = probe.before.whitelistHours
        /\ whitelistInstance.whitelistSecondCount
              = probe.before.whitelistSecondCount

\* parseArguments was called again on a whitelist and a blacklist that leave
\* two spans or more and some seconds of the day, not all.
C38_Witness ==
    /\ probe.op = "parseArguments"
    /\ probe.before.whitelist # << >>
    /\ probe.before.blacklist # << >>
    /\ Len(whitelistInstance.whitelistHours) >= 2
    /\ whitelistInstance.whitelistSecondCount > 0
    /\ whitelistInstance.whitelistSecondCount < twentyFourHours

\* C39: in a call of getExpiryDate the receiver assigns expiryDatetime
\* exactly once, in its last invocation: it is not invoked again after it
\* returned false, in the same pass or in a later one.
C39_ExpiryAssignedOnce ==
    GetExpiryDateReturned =>
        /\ probe.run.assigned = 1
        /\ probe.run.timeToBeAdded <= 0
        /\ probe.run.calls >= 1

====
